---- MODULE Spec2Model ----
(***************************************************************************)
(* Model of transport/amqp/subscriber.go: the per-delivery pipeline of     *)
(* Subscriber.ServeDelivery, publishResponse and the provided error        *)
(* encoders.  Every handler invocation (one per delivery) has its own      *)
(* locals (ctx, err, pub, request, response); the channel is shared.       *)
(* The user-supplied functions (hooks, dec, e) are stubs whose outcome is  *)
(* chosen nondeterministically; calls[w] records, in order, every call the *)
(* invocation w makes, with its arguments, as a recording test double      *)
(* would.                                                                  *)
(***************************************************************************)
EXTENDS Integers, Sequences, FiniteSets, TLC

VARIABLES s, rec, pc, deliv, ctx, cancelled, err, pub, request, response, i,
          calls, channel

vars == <<s, rec, pc, deliv, ctx, cancelled, err, pub, request, response, i,
          calls, channel>>

(* ------------------------------ bounds -------------------------------- *)

MaxBefore == 2
MaxAfter == 1
MaxFinalizer == 2

\* Handler invocations that exist; Serial are those the serial
\* specification Spec lets run.
Workers == {1, 2}
Serial == {1}

(* ------------------------------ values -------------------------------- *)

\* The nil error, and the errors the stubs and the channel return.
Nil == "<nil>"
ErrDecode == "decode failed"
ErrInvoke == "endpoint failed"
ErrEncode == "json: unsupported type"
ErrPublish == "publish failed"

ErrorEncoders == {"DefaultErrorEncoder", "SingleNackRequeueErrorEncoder",
                  "ReplyErrorEncoder", "ReplyAndAckErrorEncoder"}
EncodeResponseFuncs == {"EncodeJSONResponse", "EncodeNopResponse"}

\* The subscribers NewSubscriber can build: the hook and finalizer lists
\* are opaque functions, so only their lengths are kept.
Subscribers ==
    [before : 0..MaxBefore, after : 0..MaxAfter, finalizer : 0..MaxFinalizer,
     errorEncoder : ErrorEncoders, enc : EncodeResponseFuncs]

Deliveries ==
    [CorrelationId : {"", "cid"}, ReplyTo : {"", "q1"}, Body : {"{\"x\":1}"}]

\* Distinct deliveries, one for each of the invocations that run at once.
DeliveryOf(w) ==
    [CorrelationId |-> "cid" \o ToString(w), ReplyTo |-> "q" \o ToString(w),
     Body |-> "{\"x\":" \o ToString(w) \o "}"]

\* amqp.Publishing{}
EmptyPublishing == [CorrelationId |-> "", Body |-> ""]

\* context.Background(): no reply override and no backoff duration.
Background == [PublishKey |-> "", Exchange |-> "", NackSleepDuration |-> 0]

(* ----------------------- context accessors ---------------------------- *)

getPublishExchange(c) == c.Exchange

getPublishKey(c) == c.PublishKey

getNackSleepDuration(c) == c.NackSleepDuration

(* ------------------------------ hooks --------------------------------- *)

\* What a before hook (RequestFunc) may do with the context and the
\* publication it is handed.
RequestFuncs == {"Nop", "SetPublishKey", "SetPublishExchange",
                 "SetCorrelationID", "SetNackSleepDuration"}

ApplyRequestFunc(f, c, p) ==
    CASE f = "SetPublishKey" ->
            [ctx |-> [c EXCEPT !.PublishKey = "k1"], pub |-> p]
      [] f = "SetPublishExchange" ->
            [ctx |-> [c EXCEPT !.Exchange = "x1"], pub |-> p]
      [] f = "SetCorrelationID" ->
            [ctx |-> c, pub |-> [p EXCEPT !.CorrelationId = "h1"]]
      [] f = "SetNackSleepDuration" ->
            [ctx |-> [c EXCEPT !.NackSleepDuration = 50], pub |-> p]
      [] OTHER -> [ctx |-> c, pub |-> p]

\* What an after hook (SubscriberResponseFunc) may do.
SubscriberResponseFuncs == {"Nop", "SetPublishKey", "SetCorrelationID"}

ApplySubscriberResponseFunc(f, c, p) ==
    CASE f = "SetPublishKey" ->
            [ctx |-> [c EXCEPT !.PublishKey = "k2"], pub |-> p]
      [] f = "SetCorrelationID" ->
            [ctx |-> c, pub |-> [p EXCEPT !.CorrelationId = "h2"]]
      [] OTHER -> [ctx |-> c, pub |-> p]

(* ------------------------- encode functions --------------------------- *)

\* json.Marshal of the endpoint's response: ok says whether the response
\* value is marshalable.
MarshalResponse(r, ok) ==
    IF ok THEN [b |-> "{\"y\":" \o r \o "}", err |-> Nil]
          ELSE [b |-> "", err |-> ErrEncode]

EncodeJSONResponse(p, r, ok) ==
    LET m == MarshalResponse(r, ok)
    IN  IF m.err # Nil
        THEN [pub |-> p, err |-> m.err]
        ELSE [pub |-> [p EXCEPT !.Body = m.b], err |-> Nil]

EncodeNopResponse(p, r, ok) == [pub |-> p, err |-> Nil]

(* --------------------------- publishResponse -------------------------- *)

\* publishResponse copying the delivery's correlation identifier
\* unconditionally.
publishResponseOverwritesCorrelationId(c, d, p) ==
    LET p1 == [p EXCEPT !.CorrelationId = d.CorrelationId]
        replyExchange == getPublishExchange(c)
        replyTo == IF getPublishKey(c) = "" THEN d.ReplyTo
                   ELSE getPublishKey(c)
    IN  [pub |-> p1,
         call |-> [op |-> "Publish", exchange |-> replyExchange,
                   key |-> replyTo, mandatory |-> FALSE, immediate |-> FALSE,
                   msg |-> p1]]

\* publishResponse without the fall-back to the delivery's reply-to.
publishResponseNoFallback(c, d, p) ==
    LET p1 == IF p.CorrelationId = ""
              THEN [p EXCEPT !.CorrelationId = d.CorrelationId]
              ELSE p
        replyExchange == getPublishExchange(c)
        replyTo == getPublishKey(c)
    IN  [pub |-> p1,
         call |-> [op |-> "Publish", exchange |-> replyExchange,
                   key |-> replyTo, mandatory |-> FALSE, immediate |-> FALSE,
                   msg |-> p1]]

\* publishResponse with the test of the override inverted: the delivery's
\* reply-to wins whenever it is set.
publishResponseReplyToFirst(c, d, p) ==
    LET p1 == IF p.CorrelationId = ""
              THEN [p EXCEPT !.CorrelationId = d.CorrelationId]
              ELSE p
        replyExchange == getPublishExchange(c)
        replyTo == IF d.ReplyTo = "" THEN getPublishKey(c) ELSE d.ReplyTo
    IN  [pub |-> p1,
         call |-> [op |-> "Publish", exchange |-> replyExchange,
                   key |-> replyTo, mandatory |-> FALSE, immediate |-> FALSE,
                   msg |-> p1]]

\* The publication as publishResponse leaves it and the arguments of its
\* ch.Publish call.
publishResponse(c, d, p) ==
    LET p1 == IF p.CorrelationId = ""
              THEN [p EXCEPT !.CorrelationId = d.CorrelationId]
              ELSE p
        replyExchange == getPublishExchange(c)
        replyTo == IF getPublishKey(c) = "" THEN d.ReplyTo
                   ELSE getPublishKey(c)
    IN  [pub |-> p1,
         call |-> [op |-> "Publish", exchange |-> replyExchange,
                   key |-> replyTo, mandatory |-> FALSE, immediate |-> FALSE,
                   msg |-> p1]]

(* ---------------------------- error encoders -------------------------- *)

\* MarshalDefaultErrorResponse without the `json:"err"` tag on the field.
MarshalDefaultErrorResponseUntagged(msg) ==
    [b |-> "{\"Error\":\"" \o msg \o "\"}", err |-> Nil]

\* json.Marshal(DefaultErrorResponse{msg}): a struct of one string field
\* tagged "err"; marshalling it cannot fail.
MarshalDefaultErrorResponse(msg) ==
    [b |-> "{\"err\":\"" \o msg \o "\"}", err |-> Nil]

\* ReplyErrorEncoder returning early when there is no reply destination.
ReplyErrorEncoderNeedsReplyTo(c, e, d, p) ==
    LET p1 == IF p.CorrelationId = ""
              THEN [p EXCEPT !.CorrelationId = d.CorrelationId]
              ELSE p
        replyExchange == getPublishExchange(c)
        replyTo == IF getPublishKey(c) = "" THEN d.ReplyTo
                   ELSE getPublishKey(c)
        m == MarshalDefaultErrorResponse(e)
        p2 == [p1 EXCEPT !.Body = m.b]
    IN  IF m.err # Nil \/ replyTo = ""
        THEN [pub |-> p1, calls |-> <<>>]
        ELSE [pub |-> p2,
              calls |-> << [op |-> "Publish", exchange |-> replyExchange,
                            key |-> replyTo, mandatory |-> FALSE,
                            immediate |-> FALSE, msg |-> p2] >>]

\* ReplyErrorEncoder copying the delivery's correlation identifier
\* unconditionally.
ReplyErrorEncoderFreshCorrelation(c, e, d, p) ==
    LET p1 == [p EXCEPT !.CorrelationId = d.CorrelationId]
        replyExchange == getPublishExchange(c)
        replyTo == IF getPublishKey(c) = "" THEN d.ReplyTo
                   ELSE getPublishKey(c)
        m == MarshalDefaultErrorResponse(e)
        p2 == [p1 EXCEPT !.Body = m.b]
    IN  IF m.err # Nil
        THEN [pub |-> p1, calls |-> <<>>]
        ELSE [pub |-> p2,
              calls |-> << [op |-> "Publish", exchange |-> replyExchange,
                            key |-> replyTo, mandatory |-> FALSE,
                            immediate |-> FALSE, msg |-> p2] >>]

\* ReplyErrorEncoder replying to the delivery's reply-to only, the
\* override of the context ignored.
ReplyErrorEncoderReplyToOnly(c, e, d, p) ==
    LET p1 == IF p.CorrelationId = ""
              THEN [p EXCEPT !.CorrelationId = d.CorrelationId]
              ELSE p
        replyExchange == getPublishExchange(c)
        replyTo == d.ReplyTo
        m == MarshalDefaultErrorResponse(e)
        p2 == [p1 EXCEPT !.Body = m.b]
    IN  IF m.err # Nil
        THEN [pub |-> p1, calls |-> <<>>]
        ELSE [pub |-> p2,
              calls |-> << [op |-> "Publish", exchange |-> replyExchange,
                            key |-> replyTo, mandatory |-> FALSE,
                            immediate |-> FALSE, msg |-> p2] >>]

\* The publication as ReplyErrorEncoder leaves it and the calls it makes.
ReplyErrorEncoder(c, e, d, p) ==
    LET p1 == IF p.CorrelationId = ""
              THEN [p EXCEPT !.CorrelationId = d.CorrelationId]
              ELSE p
        replyExchange == getPublishExchange(c)
        replyTo == IF getPublishKey(c) = "" THEN d.ReplyTo
                   ELSE getPublishKey(c)
        m == MarshalDefaultErrorResponse(e)
        p2 == [p1 EXCEPT !.Body = m.b]
    IN  IF m.err # Nil
        THEN [pub |-> p1, calls |-> <<>>]
        ELSE [pub |-> p2,
              calls |-> << [op |-> "Publish", exchange |-> replyExchange,
                            key |-> replyTo, mandatory |-> FALSE,
                            immediate |-> FALSE, msg |-> p2] >>]

(* ------------------------------ helpers ------------------------------- *)

\* Where control goes when a range loop over n elements has done idx of
\* them.
LoopPc(idx, n, body, exit) == IF idx < n THEN body ELSE exit

\* The deferred functions: the finalizer loop is deferred only when a
\* finalizer is registered; cancel is deferred first and so runs last.
Deferred == IF s.finalizer > 0 THEN "finalizer" ELSE "cancel"

\* StageExit without the return of the failure branch: the handler falls
\* through to the next stage.
StageExitNoReturn(e, next) == next

\* StageExit with a failure branch that returns without calling the error
\* encoder.
StageExitSkipEncoder(e, next) == IF e # Nil THEN Deferred ELSE next

\* After a stage returned e: on an error the handler logs it, calls the
\* error encoder and returns; otherwise it goes on with next.
StageExit(e, next) == IF e # Nil THEN "errorEncoder" ELSE next

\* s.logger.Log("err", e)
Log(e) == [op |-> "Log", err |-> e]

\* FinalizerCall as "defer f(ctx, err)" would make it: the arguments are
\* evaluated when the call is deferred, at the top of the handler.
FinalizerCallEager(w, n) ==
    [op |-> "finalizer", idx |-> n, ctx |-> Background, err |-> Nil,
     cancelled |-> cancelled[w]]

\* FinalizerCall with "var err error" declared outside the handler closure:
\* one err for all invocations, here as the other invocation wrote it last.
FinalizerCallSharedErr(w, n) ==
    [op |-> "finalizer", idx |-> n, ctx |-> ctx[w],
     err |-> err[CHOOSE v \in Workers : v # w], cancelled |-> cancelled[w]]

\* FinalizerCall with "defer cancel()" registered after the finalizers'
\* closure, so that cancel runs before them.
FinalizerCallAfterCancel(w, n) ==
    [op |-> "finalizer", idx |-> n, ctx |-> ctx[w], err |-> err[w],
     cancelled |-> TRUE]

\* The n-th finalizer is called, by the deferred closure, with the ctx and
\* err variables as they are when the handler returns.
FinalizerCall(w, n) ==
    [op |-> "finalizer", idx |-> n, ctx |-> ctx[w], err |-> err[w],
     cancelled |-> cancelled[w]]

\* The idx-th hook of a list is called with context c and returns context
\* r; the contexts are recorded only when rec is set.
HookCall(o, idx, c, r) ==
    IF rec THEN [op |-> o, idx |-> idx, ctx |-> c, ret |-> r]
           ELSE [op |-> o, idx |-> idx]

\* The configured error encoder is entered with the invocation's locals.
ErrorEncoderCall(w) ==
    [op |-> "errorEncoder", name |-> s.errorEncoder, ctx |-> ctx[w],
     err |-> err[w], deliv |-> deliv[w], pub |-> pub[w]]

(* ------------------------------- Init --------------------------------- *)

\* The state before any delivery is handed to the handler of subscriber
\* sub; r says whether the hooks' contexts are recorded.
Constructed(sub, r) ==
    /\ s = sub
    /\ rec = r
    /\ pc = [w \in Workers |-> "idle"]
    /\ deliv = [w \in Workers |-> [CorrelationId |-> "", ReplyTo |-> "", Body |-> ""]]
    /\ ctx = [w \in Workers |-> Background]
    /\ cancelled = [w \in Workers |-> FALSE]
    /\ err = [w \in Workers |-> Nil]
    /\ pub = [w \in Workers |-> EmptyPublishing]
    /\ request = [w \in Workers |-> ""]
    /\ response = [w \in Workers |-> ""]
    /\ i = [w \in Workers |-> 0]
    /\ calls = [w \in Workers |-> <<>>]
    /\ channel = <<>>

Init == \E sub \in Subscribers : Constructed(sub, FALSE)

(* ------------------------------ actions ------------------------------- *)

\* The handler is called with a delivery: ctx, cancel, err and pub are set
\* up and the deferred calls registered.
Handle(w, d) ==
    /\ pc[w] = "idle"
    /\ deliv' = [deliv EXCEPT ![w] = d]
    /\ ctx' = [ctx EXCEPT ![w] = Background]
    /\ cancelled' = [cancelled EXCEPT ![w] = FALSE]
    /\ err' = [err EXCEPT ![w] = Nil]
    /\ pub' = [pub EXCEPT ![w] = EmptyPublishing]
    /\ i' = [i EXCEPT ![w] = 0]
    /\ pc' = [pc EXCEPT ![w] = LoopPc(0, s.before, "before", "dec")]
    /\ UNCHANGED <<s, rec, request, response, calls, channel>>

\* The handler is called with any delivery.
ServeDelivery(w) == \E d \in Deliveries : Handle(w, d)

\* The handler is called with the delivery of invocation w, when several
\* invocations run at once.
ServeDeliveryConc(w) == Handle(w, DeliveryOf(w))

\* The before loop with the hook's result dropped: f(ctx, &pub, deliv)
\* without the assignment to ctx.
BeforeDropsContext(w) ==
    /\ pc[w] = "before"
    /\ \E f \in RequestFuncs :
         LET r == ApplyRequestFunc(f, ctx[w], pub[w])
         IN  /\ pub' = [pub EXCEPT ![w] = r.pub]
             /\ calls' = [calls EXCEPT ![w] =
                            Append(@, HookCall("before", i[w] + 1, ctx[w], r.ctx))]
    /\ i' = [i EXCEPT ![w] = @ + 1]
    /\ pc' = [pc EXCEPT ![w] = LoopPc(i[w] + 1, s.before, "before", "dec")]
    /\ UNCHANGED <<s, rec, deliv, ctx, cancelled, err, request, response, channel>>

\* One iteration of the loop over s.before.
Before(w) ==
    /\ pc[w] = "before"
    /\ \E f \in RequestFuncs :
         LET r == ApplyRequestFunc(f, ctx[w], pub[w])
         IN  /\ ctx' = [ctx EXCEPT ![w] = r.ctx]
             /\ pub' = [pub EXCEPT ![w] = r.pub]
             /\ calls' = [calls EXCEPT ![w] =
                            Append(@, HookCall("before", i[w] + 1, ctx[w], r.ctx))]
    /\ i' = [i EXCEPT ![w] = @ + 1]
    /\ pc' = [pc EXCEPT ![w] = LoopPc(i[w] + 1, s.before, "before", "dec")]
    /\ UNCHANGED <<s, rec, deliv, cancelled, err, request, response, channel>>

\* request, err := s.dec(ctx, deliv), and the failure branch up to the
\* call of the error encoder.
Decode(w) ==
    /\ pc[w] = "dec"
    /\ \E e \in {Nil, ErrDecode} :
         /\ err' = [err EXCEPT ![w] = e]
         /\ request' = [request EXCEPT ![w] = IF e = Nil THEN deliv[w].Body ELSE ""]
         /\ calls' = [calls EXCEPT ![w] =
                        Append(@, [op |-> "dec", ctx |-> ctx[w], err |-> e])
                        \o (IF e = Nil THEN <<>> ELSE <<Log(e)>>)]
         /\ pc' = [pc EXCEPT ![w] = StageExit(e, "e")]
    /\ UNCHANGED <<s, rec, deliv, ctx, cancelled, pub, response, i, channel>>

\* response, err := s.e(ctx, request)
Endpoint(w) ==
    /\ pc[w] = "e"
    /\ \E e \in {Nil, ErrInvoke} :
         /\ err' = [err EXCEPT ![w] = e]
         /\ response' = [response EXCEPT ![w] = IF e = Nil THEN request[w] ELSE ""]
         /\ calls' = [calls EXCEPT ![w] =
                        Append(@, [op |-> "e", ctx |-> ctx[w], err |-> e])
                        \o (IF e = Nil THEN <<>> ELSE <<Log(e)>>)]
         /\ pc' = [pc EXCEPT ![w] =
                     StageExit(e, LoopPc(0, s.after, "after", "enc"))]
         /\ i' = [i EXCEPT ![w] = 0]
    /\ UNCHANGED <<s, rec, deliv, ctx, cancelled, pub, request, channel>>

\* One iteration of the loop over s.after.
After(w) ==
    /\ pc[w] = "after"
    /\ \E f \in SubscriberResponseFuncs :
         LET r == ApplySubscriberResponseFunc(f, ctx[w], pub[w])
         IN  /\ ctx' = [ctx EXCEPT ![w] = r.ctx]
             /\ pub' = [pub EXCEPT ![w] = r.pub]
             /\ calls' = [calls EXCEPT ![w] =
                            Append(@, HookCall("after", i[w] + 1, ctx[w], r.ctx))]
    /\ i' = [i EXCEPT ![w] = @ + 1]
    /\ pc' = [pc EXCEPT ![w] = LoopPc(i[w] + 1, s.after, "after", "enc")]
    /\ UNCHANGED <<s, rec, deliv, cancelled, err, request, response, channel>>

\* err = s.enc(ctx, &pub, response)
Encode(w) ==
    /\ pc[w] = "enc"
    /\ \E ok \in BOOLEAN :
         LET r == IF s.enc = "EncodeJSONResponse"
                  THEN EncodeJSONResponse(pub[w], response[w], ok)
                  ELSE EncodeNopResponse(pub[w], response[w], ok)
         IN  /\ pub' = [pub EXCEPT ![w] = r.pub]
             /\ err' = [err EXCEPT ![w] = r.err]
             /\ calls' = [calls EXCEPT ![w] =
                            Append(@, [op |-> "enc", ctx |-> ctx[w], err |-> r.err])
                            \o (IF r.err = Nil THEN <<>> ELSE <<Log(r.err)>>)]
             /\ pc' = [pc EXCEPT ![w] = StageExit(r.err, "publishResponse")]
    /\ UNCHANGED <<s, rec, deliv, ctx, cancelled, request, response, i, channel>>

\* publishResponse returning nil without a Publish when there is no
\* routing key.
PublishResponseSkipsEmptyKey(w) ==
    /\ pc[w] = "publishResponse"
    /\ \E e \in {Nil, ErrPublish} :
         LET r == publishResponse(ctx[w], deliv[w], pub[w])
             c == [r.call EXCEPT !.op = "Publish"] @@ [err |-> e]
             skip == r.call.key = ""
             res == IF skip THEN Nil ELSE e
         IN  /\ pub' = [pub EXCEPT ![w] = r.pub]
             /\ err' = [err EXCEPT ![w] = res]
             /\ channel' = IF skip THEN channel ELSE Append(channel, c)
             /\ calls' = [calls EXCEPT ![w] =
                            @ \o << [op |-> "publishResponse", ctx |-> ctx[w],
                                     pub |-> pub[w], err |-> res] >>
                            \o (IF skip THEN <<>> ELSE <<c>>)
                            \o (IF res = Nil THEN <<>> ELSE <<Log(res)>>)]
             /\ pc' = [pc EXCEPT ![w] = StageExit(res, Deferred)]
    /\ UNCHANGED <<s, rec, deliv, ctx, cancelled, request, response, i>>

\* err = s.publishResponse(ctx, deliv, ch, &pub): the channel returns nil
\* or an error.
PublishResponse(w) ==
    /\ pc[w] = "publishResponse"
    /\ \E e \in {Nil, ErrPublish} :
         LET r == publishResponse(ctx[w], deliv[w], pub[w])
             c == [r.call EXCEPT !.op = "Publish"] @@ [err |-> e]
         IN  /\ pub' = [pub EXCEPT ![w] = r.pub]
             /\ err' = [err EXCEPT ![w] = e]
             /\ channel' = Append(channel, c)
             /\ calls' = [calls EXCEPT ![w] =
                            @ \o << [op |-> "publishResponse", ctx |-> ctx[w],
                                     pub |-> pub[w], err |-> e], c >>
                            \o (IF e = Nil THEN <<>> ELSE <<Log(e)>>)]
             /\ pc' = [pc EXCEPT ![w] = StageExit(e, Deferred)]
    /\ UNCHANGED <<s, rec, deliv, ctx, cancelled, request, response, i>>

\* DefaultErrorEncoder rejecting the delivery.
DefaultErrorEncoderNacks(w) ==
    /\ pc[w] = "errorEncoder"
    /\ s.errorEncoder = "DefaultErrorEncoder"
    /\ calls' = [calls EXCEPT ![w] =
                   @ \o << ErrorEncoderCall(w),
                           [op |-> "Nack", multiple |-> FALSE, requeue |-> TRUE] >>]
    /\ pc' = [pc EXCEPT ![w] = Deferred]
    /\ UNCHANGED <<s, rec, deliv, ctx, cancelled, err, pub, request, response, i, channel>>

\* DefaultErrorEncoder: an empty body.
DefaultErrorEncoder(w) ==
    /\ pc[w] = "errorEncoder"
    /\ s.errorEncoder = "DefaultErrorEncoder"
    /\ calls' = [calls EXCEPT ![w] = Append(@, ErrorEncoderCall(w))]
    /\ pc' = [pc EXCEPT ![w] = Deferred]
    /\ UNCHANGED <<s, rec, deliv, ctx, cancelled, err, pub, request, response, i, channel>>

\* SingleNackRequeueErrorEncoder up to deliv.Nack(false, true).
SingleNackRequeueErrorEncoder(w) ==
    /\ pc[w] = "errorEncoder"
    /\ s.errorEncoder = "SingleNackRequeueErrorEncoder"
    /\ calls' = [calls EXCEPT ![w] =
                   @ \o << ErrorEncoderCall(w),
                           [op |-> "Nack", multiple |-> FALSE, requeue |-> TRUE] >>]
    /\ pc' = [pc EXCEPT ![w] = "sleep"]
    /\ UNCHANGED <<s, rec, deliv, ctx, cancelled, err, pub, request, response, i, channel>>

\* The sleep with a fixed duration of zero, whatever the context carries.
SleepIgnoresContext(w) ==
    /\ pc[w] = "sleep"
    /\ calls' = [calls EXCEPT ![w] = Append(@, [op |-> "Sleep", duration |-> 0])]
    /\ pc' = [pc EXCEPT ![w] = Deferred]
    /\ UNCHANGED <<s, rec, deliv, ctx, cancelled, err, pub, request, response, i, channel>>

\* duration := getNackSleepDuration(ctx); time.Sleep(duration)
Sleep(w) ==
    /\ pc[w] = "sleep"
    /\ calls' = [calls EXCEPT ![w] =
                   Append(@, [op |-> "Sleep", duration |-> getNackSleepDuration(ctx[w])])]
    /\ pc' = [pc EXCEPT ![w] = Deferred]
    /\ UNCHANGED <<s, rec, deliv, ctx, cancelled, err, pub, request, response, i, channel>>

\* ReplyErrorEncoder handing the error of its ch.Publish back into the
\* handler's err.
ReplyKeepsPublishError(w) ==
    /\ pc[w] = "errorEncoder"
    /\ s.errorEncoder \in {"ReplyErrorEncoder", "ReplyAndAckErrorEncoder"}
    /\ \E e \in {Nil, ErrPublish} :
         LET r == ReplyErrorEncoder(ctx[w], err[w], deliv[w], pub[w])
             cs == [k \in 1..Len(r.calls) |-> r.calls[k] @@ [err |-> e]]
         IN  /\ pub' = [pub EXCEPT ![w] = r.pub]
             /\ err' = [err EXCEPT ![w] = IF e # Nil THEN e ELSE @]
             /\ channel' = channel \o cs
             /\ calls' = [calls EXCEPT ![w] = (@ \o <<ErrorEncoderCall(w)>>) \o cs]
    /\ pc' = [pc EXCEPT ![w] =
                IF s.errorEncoder = "ReplyAndAckErrorEncoder" THEN "ack" ELSE Deferred]
    /\ UNCHANGED <<s, rec, deliv, ctx, cancelled, request, response, i>>

\* ReplyErrorEncoder rejecting the delivery once it has replied.
ReplyNacks(w) ==
    /\ pc[w] = "errorEncoder"
    /\ s.errorEncoder \in {"ReplyErrorEncoder", "ReplyAndAckErrorEncoder"}
    /\ \E e \in {Nil, ErrPublish} :
         LET r == ReplyErrorEncoder(ctx[w], err[w], deliv[w], pub[w])
             cs == [k \in 1..Len(r.calls) |-> r.calls[k] @@ [err |-> e]]
         IN  /\ pub' = [pub EXCEPT ![w] = r.pub]
             /\ channel' = channel \o cs
             /\ calls' = [calls EXCEPT ![w] =
                            (@ \o <<ErrorEncoderCall(w)>>) \o cs
                            \o << [op |-> "Nack", multiple |-> FALSE, requeue |-> FALSE] >>]
    /\ pc' = [pc EXCEPT ![w] =
                IF s.errorEncoder = "ReplyAndAckErrorEncoder" THEN "ack" ELSE Deferred]
    /\ UNCHANGED <<s, rec, deliv, ctx, cancelled, err, request, response, i>>

\* ReplyErrorEncoder, called as the error encoder or from
\* ReplyAndAckErrorEncoder; the result of its ch.Publish is dropped.
Reply(w) ==
    /\ pc[w] = "errorEncoder"
    /\ s.errorEncoder \in {"ReplyErrorEncoder", "ReplyAndAckErrorEncoder"}
    /\ \E e \in {Nil, ErrPublish} :
         LET r == ReplyErrorEncoder(ctx[w], err[w], deliv[w], pub[w])
             cs == [k \in 1..Len(r.calls) |-> r.calls[k] @@ [err |-> e]]
         IN  /\ pub' = [pub EXCEPT ![w] = r.pub]
             /\ channel' = channel \o cs
             /\ calls' = [calls EXCEPT ![w] = (@ \o <<ErrorEncoderCall(w)>>) \o cs]
    /\ pc' = [pc EXCEPT ![w] =
                IF s.errorEncoder = "ReplyAndAckErrorEncoder" THEN "ack" ELSE Deferred]
    /\ UNCHANGED <<s, rec, deliv, ctx, cancelled, err, request, response, i>>

\* ReplyAndAckErrorEncoder acknowledging only when the reply was sent.
AckOnlyIfReplied(w) ==
    /\ pc[w] = "ack"
    /\ calls' = [calls EXCEPT ![w] =
                   IF @[Len(@)].op = "Publish" /\ @[Len(@)].err = Nil
                   THEN Append(@, [op |-> "Ack", multiple |-> FALSE])
                   ELSE @]
    /\ pc' = [pc EXCEPT ![w] = Deferred]
    /\ UNCHANGED <<s, rec, deliv, ctx, cancelled, err, pub, request, response, i, channel>>

\* ReplyAndAckErrorEncoder without its deliv.Ack(false).
AckOmitted(w) ==
    /\ pc[w] = "ack"
    /\ pc' = [pc EXCEPT ![w] = Deferred]
    /\ UNCHANGED <<s, rec, deliv, ctx, cancelled, err, pub, request, response, i,
                   calls, channel>>

\* ReplyAndAckErrorEncoder after ReplyErrorEncoder returned: deliv.Ack(false)
Ack(w) ==
    /\ pc[w] = "ack"
    /\ calls' = [calls EXCEPT ![w] = Append(@, [op |-> "Ack", multiple |-> FALSE])]
    /\ pc' = [pc EXCEPT ![w] = Deferred]
    /\ UNCHANGED <<s, rec, deliv, ctx, cancelled, err, pub, request, response, i, channel>>

\* One iteration of the deferred loop over s.finalizer: f(ctx, err)
Finalizer(w) ==
    /\ pc[w] = "finalizer"
    /\ LET n == Len(SelectSeq(calls[w], LAMBDA c : c.op = "finalizer"))
       IN  /\ calls' = [calls EXCEPT ![w] =
                          Append(@, FinalizerCall(w, n + 1))]
           /\ pc' = [pc EXCEPT ![w] = LoopPc(n + 1, s.finalizer, "finalizer", "cancel")]
    /\ UNCHANGED <<s, rec, deliv, ctx, cancelled, err, pub, request, response, i, channel>>

\* The deferred cancel(), then the handler returns.
Cancel(w) ==
    /\ pc[w] = "cancel"
    /\ cancelled' = [cancelled EXCEPT ![w] = TRUE]
    /\ calls' = [calls EXCEPT ![w] = Append(@, [op |-> "cancel"])]
    /\ pc' = [pc EXCEPT ![w] = "done"]
    /\ UNCHANGED <<s, rec, deliv, ctx, err, pub, request, response, i, channel>>

Next ==
    \E w \in Serial :
        \/ ServeDelivery(w)
        \/ Before(w)
        \/ Decode(w)
        \/ Endpoint(w)
        \/ After(w)
        \/ Encode(w)
        \/ PublishResponse(w)
        \/ DefaultErrorEncoder(w)
        \/ SingleNackRequeueErrorEncoder(w)
        \/ Sleep(w)
        \/ Reply(w)
        \/ Ack(w)
        \/ Finalizer(w)
        \/ Cancel(w)

Spec == Init /\ [][Next]_vars

\* The same handler with the contexts of the hook calls recorded, for the
\* subscribers with one finalizer and the JSON encode function.
HookSubscribers ==
    {sub \in Subscribers : sub.finalizer = 1 /\ sub.enc = "EncodeJSONResponse"}

InitHooks == \E sub \in HookSubscribers : Constructed(sub, TRUE)

SpecHooks == InitHooks /\ [][Next]_vars

\* Two invocations of the handler of one subscriber, on one channel, run
\* at once: their steps interleave, each ch.Publish being one step.
ConcSubscribers ==
    {sub \in Subscribers :
        /\ sub.before = 1 /\ sub.after = 1 /\ sub.finalizer = 1
        /\ sub.enc = "EncodeJSONResponse"}

InitConc == \E sub \in ConcSubscribers : Constructed(sub, FALSE)

NextConc ==
    \E w \in Workers :
        \/ ServeDeliveryConc(w)
        \/ Before(w)
        \/ Decode(w)
        \/ Endpoint(w)
        \/ After(w)
        \/ Encode(w)
        \/ PublishResponse(w)
        \/ DefaultErrorEncoder(w)
        \/ SingleNackRequeueErrorEncoder(w)
        \/ Sleep(w)
        \/ Reply(w)
        \/ Ack(w)
        \/ Finalizer(w)
        \/ Cancel(w)

SpecConc == InitConc /\ [][NextConc]_vars

(* ------------------- reading the recorded calls ----------------------- *)

\* The calls of invocation w of one kind, in order.
Ops(w, o) == SelectSeq(calls[w], LAMBDA c : c.op = o)

StageOps == {"dec", "e", "enc", "publishResponse"}

\* The positions in calls[w] of the stages that returned an error.
Failed(w) ==
    {k \in DOMAIN calls[w] : calls[w][k].op \in StageOps /\ calls[w][k].err # Nil}

FirstOf(S) == CHOOSE k \in S : \A l \in S : k <= l

\* The error of the first stage that failed, nil when none has.
TerminalError(w) ==
    IF Failed(w) = {} THEN Nil ELSE calls[w][FirstOf(Failed(w))].err

\* The stage op ran and returned nil.
Succeeded(w, o) == Len(Ops(w, o)) = 1 /\ Ops(w, o)[1].err = Nil

DecodeFailed(w) == Ops(w, "dec") # <<>> /\ Ops(w, "dec")[1].err # Nil

\* The pipeline proper is over: only the deferred calls remain.
PipelineOver(w) == pc[w] \in {"finalizer", "cancel", "done"}

\* The JSON text {"err":"<msg>"}.
ErrorPayload(msg) == "{\"err\":\"" \o msg \o "\"}"

\* The calls made from the entry of the error encoder on, the deferred
\* calls left out.
InvocationCalls(w) ==
    LET k == FirstOf({j \in DOMAIN calls[w] : calls[w][j].op = "errorEncoder"})
    IN  SelectSeq(SubSeq(calls[w], k + 1, Len(calls[w])),
                  LAMBDA c : c.op \notin {"finalizer", "cancel"})

\* The reply-key override the before hooks left in the context: the one
\* decode is called with.
KeyAfterBefore(w) == Ops(w, "dec")[1].ctx.PublishKey

(* ------------------------------ claims -------------------------------- *)

\* C1: every registered finalizer is called exactly once per delivery, with
\* the delivery's terminal error: nil when decode, invoke, encode and
\* publish all succeeded, else the error of the stage that failed.
C1_FinalizersOnceWithTerminalError ==
    \A w \in Workers :
        /\ \A n \in 1..s.finalizer :
             LET fs == SelectSeq(calls[w], LAMBDA c : c.op = "finalizer" /\ c.idx = n)
             IN  /\ Len(fs) <= 1
                 /\ pc[w] = "done" => Len(fs) = 1
        /\ \A k \in DOMAIN calls[w] :
             calls[w][k].op = "finalizer" =>
               /\ calls[w][k].idx \in 1..s.finalizer
               /\ calls[w][k].err = TerminalError(w)
               /\ calls[w][k].err = Nil <=> \A o \in StageOps : Succeeded(w, o)

C1_Witness ==
    \E w \in Workers :
        /\ pc[w] = "done"
        /\ s.finalizer >= 2
        /\ TerminalError(w) = ErrEncode
        /\ Len(Ops(w, "finalizer")) = s.finalizer
        /\ \A k \in 1..s.finalizer : Ops(w, "finalizer")[k].err = ErrEncode

\* C2: once a stage has failed no later stage runs: no endpoint, after
\* hook, encode or response publish after a failed decode, and so on down
\* the pipeline.
C2_NoStageAfterFailure ==
    \A w \in Workers :
        \A k \in Failed(w) :
            \A l \in DOMAIN calls[w] :
                l > k => calls[w][l].op \notin (StageOps \cup {"before", "after"})

C2_Witness ==
    \E w \in Workers :
        /\ pc[w] = "done"
        /\ s.after >= 1
        /\ TerminalError(w) = ErrInvoke
        /\ Ops(w, "after") = <<>>
        /\ Ops(w, "enc") = <<>>
        /\ Ops(w, "publishResponse") = <<>>

\* C3: the error encoder is invoked exactly once per delivery when one of
\* the four stages fails, with that stage's error and the delivery, and
\* never when all four succeed; a failed response publish is routed like
\* any other failure.
C3_ErrorEncoderOncePerFailure ==
    \A w \in Workers :
        LET ee == Ops(w, "errorEncoder")
        IN  /\ Len(ee) <= 1
            /\ Len(ee) = 1 =>
                 /\ Failed(w) # {}
                 /\ ee[1].err = TerminalError(w)
                 /\ ee[1].deliv = deliv[w]
                 /\ ee[1].name = s.errorEncoder
            /\ PipelineOver(w) => Len(ee) = (IF Failed(w) = {} THEN 0 ELSE 1)

C3_Witness ==
    \E w \in Workers :
        /\ pc[w] = "done"
        /\ TerminalError(w) = ErrPublish
        /\ Len(Ops(w, "errorEncoder")) = 1
        /\ Ops(w, "errorEncoder")[1].err = ErrPublish

\* C4 as stated: when decode fails, Publish is not called at all while the
\* delivery is processed, whatever the error encoder.
C4_NoPublishWhenDecodeFails ==
    \A w \in Workers : DecodeFailed(w) => Ops(w, "Publish") = <<>>

\* C4 as amended: when decode fails the response is never published; the
\* only Publish is the error reply of a reply strategy (ReplyErrorEncoder,
\* ReplyAndAckErrorEncoder), which is made exactly once; under
\* DefaultErrorEncoder and SingleNackRequeueErrorEncoder there is none.
C4_DecodeFailurePublishesOnlyErrorReply ==
    \A w \in Workers :
        DecodeFailed(w) =>
            /\ Ops(w, "publishResponse") = <<>>
            /\ \A k \in DOMAIN calls[w] :
                 calls[w][k].op = "Publish" =>
                   /\ k > 1
                   /\ calls[w][k - 1].op = "errorEncoder"
                   /\ calls[w][k].msg.Body = ErrorPayload(ErrDecode)
            /\ PipelineOver(w) =>
                 Len(Ops(w, "Publish")) =
                   (IF s.errorEncoder \in {"ReplyErrorEncoder", "ReplyAndAckErrorEncoder"}
                    THEN 1 ELSE 0)

C4_Witness ==
    \E w \in Workers :
        /\ pc[w] = "done"
        /\ DecodeFailed(w)
        /\ s.errorEncoder = "ReplyErrorEncoder"
        /\ deliv[w].ReplyTo = ""
        /\ Len(Ops(w, "Publish")) = 1
        /\ Ops(w, "Publish")[1].msg.Body = ErrorPayload(ErrDecode)

\* C5: the message publishResponse passes to Publish carries the
\* delivery's correlation identifier when the publication's was empty on
\* entry, and the publication's own value otherwise.
C5_CorrelationIdAtPublish ==
    \A w \in Workers :
        \A k \in DOMAIN calls[w] :
            calls[w][k].op = "publishResponse" =>
                /\ k < Len(calls[w])
                /\ calls[w][k + 1].op = "Publish"
                /\ calls[w][k + 1].msg.CorrelationId =
                     (IF calls[w][k].pub.CorrelationId = ""
                      THEN deliv[w].CorrelationId
                      ELSE calls[w][k].pub.CorrelationId)
                /\ calls[w][k + 1].msg.Body = calls[w][k].pub.Body

C5_Witness ==
    \E w \in Workers :
        /\ Ops(w, "publishResponse") # <<>>
        /\ Ops(w, "publishResponse")[1].pub.CorrelationId = ""
        /\ deliv[w].CorrelationId = "cid"
        /\ Ops(w, "Publish")[1].msg.CorrelationId = "cid"

\* C6 as stated: if no before hook sets a reply-key override, the routing
\* key of the response's Publish is the delivery's reply-to.
C6_ReplyToWithoutBeforeOverride ==
    \A w \in Workers :
        \A k \in DOMAIN calls[w] :
            (calls[w][k].op = "publishResponse" /\ KeyAfterBefore(w) = "") =>
                calls[w][k + 1].key = deliv[w].ReplyTo

\* C6 as amended: if neither a before hook nor an after hook sets a
\* reply-key override, the routing key of the response's Publish is the
\* delivery's reply-to.
C6_ReplyToWithoutAnyOverride ==
    \A w \in Workers :
        \A k \in DOMAIN calls[w] :
            (/\ calls[w][k].op = "publishResponse"
             /\ KeyAfterBefore(w) = ""
             /\ calls[w][k].ctx.PublishKey = "") =>
                calls[w][k + 1].key = deliv[w].ReplyTo

C6_Witness ==
    \E w \in Workers :
        /\ s.before >= 1
        /\ s.after >= 1
        /\ Ops(w, "publishResponse") # <<>>
        /\ KeyAfterBefore(w) = ""
        /\ Ops(w, "publishResponse")[1].ctx.PublishKey = ""
        /\ deliv[w].ReplyTo = "q1"
        /\ Ops(w, "Publish")[1].key = "q1"

\* C7 as stated: if a before hook sets a reply-key override, the routing
\* key of the response's Publish is that override.
C7_BeforeOverrideIsRoutingKey ==
    \A w \in Workers :
        \A k \in DOMAIN calls[w] :
            (calls[w][k].op = "publishResponse" /\ KeyAfterBefore(w) # "") =>
                calls[w][k + 1].key = KeyAfterBefore(w)

\* C7 as amended: if a before hook sets a reply-key override and no after
\* hook replaces it, the routing key of the response's Publish is that
\* override, whatever the delivery's reply-to; an override that an after
\* hook sets replaces it, and is the routing key in its turn.
C7_OverrideInForceIsRoutingKey ==
    \A w \in Workers :
        \A k \in DOMAIN calls[w] :
            (calls[w][k].op = "publishResponse" /\ calls[w][k].ctx.PublishKey # "") =>
                /\ calls[w][k + 1].key = calls[w][k].ctx.PublishKey
                /\ calls[w][k].ctx.PublishKey = KeyAfterBefore(w) =>
                     calls[w][k + 1].key = KeyAfterBefore(w)

C7_Witness ==
    \E w \in Workers :
        /\ Ops(w, "publishResponse") # <<>>
        /\ KeyAfterBefore(w) = "k1"
        /\ Ops(w, "publishResponse")[1].ctx.PublishKey = "k1"
        /\ deliv[w].ReplyTo = "q1"
        /\ Ops(w, "Publish")[1].key = "k1"

\* C8: every Ack or Nack is issued inside an invocation of the error
\* encoder; a delivery whose stages all succeeded, and any delivery under
\* DefaultErrorEncoder, ends with no Ack, no Nack and no error reply.
C8_AckNackOnlyInsideErrorEncoder ==
    \A w \in Workers :
        /\ \A k \in DOMAIN calls[w] :
             calls[w][k].op \in {"Ack", "Nack"} =>
               /\ \E j \in 1..(k - 1) : calls[w][j].op = "errorEncoder"
               /\ \A j \in 1..(k - 1) : calls[w][j].op \notin {"finalizer", "cancel"}
        /\ (pc[w] = "done" /\ (Failed(w) = {} \/ s.errorEncoder = "DefaultErrorEncoder")) =>
             /\ Ops(w, "Ack") = <<>>
             /\ Ops(w, "Nack") = <<>>
             /\ \A k \in DOMAIN calls[w] :
                  calls[w][k].op = "Publish" =>
                    k > 1 /\ calls[w][k - 1].op = "publishResponse"

C8_Witness ==
    \E w \in Workers :
        /\ pc[w] = "done"
        /\ s.errorEncoder = "DefaultErrorEncoder"
        /\ TerminalError(w) = ErrPublish
        /\ Len(Ops(w, "errorEncoder")) = 1
        /\ Ops(w, "Ack") = <<>>
        /\ Ops(w, "Nack") = <<>>
        /\ Len(Ops(w, "Publish")) = 1

\* C9 as stated: every delivery has been acknowledged or rejected when its
\* processing ends.
C9_DeliveryAckedOrNackedAtEnd ==
    \A w \in Workers :
        pc[w] = "done" => Len(Ops(w, "Ack")) + Len(Ops(w, "Nack")) >= 1

\* C9 as amended: when processing ends a delivery has been acknowledged or
\* rejected only if a stage failed and the error encoder is
\* SingleNackRequeueErrorEncoder (one Nack) or ReplyAndAckErrorEncoder (one
\* Ack); on success, and under DefaultErrorEncoder and ReplyErrorEncoder,
\* it is left neither acknowledged nor rejected.
C9_AckedOrNackedOnlyByErrorEncoder ==
    \A w \in Workers :
        pc[w] = "done" =>
            /\ Len(Ops(w, "Nack")) =
                 (IF Failed(w) # {} /\ s.errorEncoder = "SingleNackRequeueErrorEncoder"
                  THEN 1 ELSE 0)
            /\ Len(Ops(w, "Ack")) =
                 (IF Failed(w) # {} /\ s.errorEncoder = "ReplyAndAckErrorEncoder"
                  THEN 1 ELSE 0)

C9_Witness ==
    \E w \in Workers :
        /\ pc[w] = "done"
        /\ s.errorEncoder = "ReplyAndAckErrorEncoder"
        /\ TerminalError(w) = ErrInvoke
        /\ Len(Ops(w, "Ack")) = 1
        /\ Ops(w, "Nack") = <<>>

\* C10: an invocation of ReplyAndAckErrorEncoder makes exactly one Publish
\* call, with body {"err":"<message>"}, then exactly one Ack(false); the
\* Ack never precedes the Publish and there is no Nack.
C10_ReplyAndAckPublishThenAck ==
    \A w \in Workers :
        (s.errorEncoder = "ReplyAndAckErrorEncoder" /\ Ops(w, "errorEncoder") # <<>>) =>
            LET t == InvocationCalls(w)
                e == Ops(w, "errorEncoder")[1].err
            IN  /\ Len(t) \in {1, 2}
                /\ t[1].op = "Publish"
                /\ t[1].msg.Body = ErrorPayload(e)
                /\ Len(t) = 2 => t[2] = [op |-> "Ack", multiple |-> FALSE]
                /\ PipelineOver(w) => Len(t) = 2

C10_Witness ==
    \E w \in Workers :
        /\ pc[w] = "done"
        /\ s.errorEncoder = "ReplyAndAckErrorEncoder"
        /\ TerminalError(w) = ErrPublish
        /\ Len(InvocationCalls(w)) = 2
        /\ InvocationCalls(w)[1].op = "Publish"
        /\ InvocationCalls(w)[1].msg.Body = ErrorPayload(ErrPublish)
        /\ InvocationCalls(w)[2].op = "Ack"

\* C11: an invocation of SingleNackRequeueErrorEncoder issues exactly one
\* Nack(multiple=false, requeue=true), no Publish and no Ack, and then
\* sleeps for the backoff duration the context carries; no finalizer runs
\* and the handler does not return before the sleep.
C11_NackThenSleepForBackoff ==
    \A w \in Workers :
        (s.errorEncoder = "SingleNackRequeueErrorEncoder" /\ Ops(w, "errorEncoder") # <<>>) =>
            LET t == InvocationCalls(w)
                ee == Ops(w, "errorEncoder")[1]
            IN  /\ Len(t) \in {1, 2}
                /\ t[1] = [op |-> "Nack", multiple |-> FALSE, requeue |-> TRUE]
                /\ Len(t) = 2 =>
                     t[2] = [op |-> "Sleep", duration |-> ee.ctx.NackSleepDuration]
                /\ PipelineOver(w) => Len(t) = 2
                /\ \A k \in DOMAIN calls[w] :
                     calls[w][k].op \in {"finalizer", "cancel"} =>
                       \E j \in 1..(k - 1) :
                           /\ calls[w][j].op = "Sleep"
                           /\ \E n \in 1..(j - 1) : calls[w][n].op = "Nack"

C11_Witness ==
    \E w \in Workers :
        /\ pc[w] = "done"
        /\ s.errorEncoder = "SingleNackRequeueErrorEncoder"
        /\ s.finalizer >= 1
        /\ TerminalError(w) = ErrDecode
        /\ Ops(w, "errorEncoder")[1].ctx.NackSleepDuration = 50
        /\ InvocationCalls(w) =
             << [op |-> "Nack", multiple |-> FALSE, requeue |-> TRUE],
                [op |-> "Sleep", duration |-> 50] >>

\* C12: the Publish call of ReplyErrorEncoder has the exchange, routing
\* key, flags and correlation identifier that publishResponse passes for
\* the same context, delivery and publication: the exchange override of
\* the context or "", the key override if set and else the delivery's
\* reply-to, mandatory and immediate false.
C12_ReplyResolvesLikePublishResponse ==
    \A w \in Workers :
        \A k \in DOMAIN calls[w] :
            (/\ calls[w][k].op = "errorEncoder"
             /\ calls[w][k].name \in {"ReplyErrorEncoder", "ReplyAndAckErrorEncoder"}) =>
                LET ee == calls[w][k]
                    want == publishResponse(ee.ctx, ee.deliv, ee.pub).call
                    got == calls[w][k + 1]
                IN  /\ k < Len(calls[w])
                    /\ got.op = "Publish"
                    /\ got.exchange = want.exchange
                    /\ got.key = want.key
                    /\ got.mandatory = want.mandatory
                    /\ got.immediate = want.immediate
                    /\ got.msg.CorrelationId = want.msg.CorrelationId
                    /\ got.exchange = ee.ctx.Exchange
                    /\ got.key = (IF ee.ctx.PublishKey # "" THEN ee.ctx.PublishKey
                                  ELSE ee.deliv.ReplyTo)
                    /\ ~got.mandatory /\ ~got.immediate

C12_Witness ==
    \E w \in Workers :
        /\ s.errorEncoder = "ReplyErrorEncoder"
        /\ Ops(w, "errorEncoder") # <<>>
        /\ Ops(w, "errorEncoder")[1].ctx.PublishKey = "k1"
        /\ Ops(w, "errorEncoder")[1].ctx.Exchange = "x1"
        /\ Ops(w, "errorEncoder")[1].pub.CorrelationId = ""
        /\ deliv[w] = [CorrelationId |-> "cid", ReplyTo |-> "q1", Body |-> "{\"x\":1}"]
        /\ Ops(w, "publishResponse") = <<>>
        /\ Ops(w, "Publish")[1].exchange = "x1"
        /\ Ops(w, "Publish")[1].key = "k1"
        /\ Ops(w, "Publish")[1].msg.CorrelationId = "cid"

\* C13: ReplyErrorEncoder never acknowledges or rejects the delivery: its
\* only call is the Publish, and it changes only the publication
\* (correlation identifier filled in, body replaced by the error payload);
\* context, error and delivery are as they were.
C13_ReplyNeitherAcksNorNacks ==
    \A w \in Workers :
        (s.errorEncoder = "ReplyErrorEncoder" /\ Ops(w, "errorEncoder") # <<>>) =>
            LET ee == Ops(w, "errorEncoder")[1]
                t == InvocationCalls(w)
            IN  /\ Ops(w, "Ack") = <<>>
                /\ Ops(w, "Nack") = <<>>
                /\ Len(t) = 1
                /\ t[1].op = "Publish"
                /\ pub[w] =
                     [CorrelationId |-> IF ee.pub.CorrelationId = ""
                                        THEN ee.deliv.CorrelationId
                                        ELSE ee.pub.CorrelationId,
                      Body |-> ErrorPayload(ee.err)]
                /\ t[1].msg = pub[w]
                /\ ctx[w] = ee.ctx
                /\ err[w] = ee.err
                /\ deliv[w] = ee.deliv

C13_Witness ==
    \E w \in Workers :
        /\ pc[w] = "done"
        /\ s.errorEncoder = "ReplyErrorEncoder"
        /\ TerminalError(w) = ErrEncode
        /\ Ops(w, "Ack") = <<>>
        /\ Ops(w, "Nack") = <<>>
        /\ Len(Ops(w, "Publish")) = 1
        /\ pub[w].Body = ErrorPayload(ErrEncode)

\* c is an interleaving of a and b that keeps the order of each.
RECURSIVE IsMerge(_, _, _)
IsMerge(c, a, b) ==
    IF c = <<>> THEN a = <<>> /\ b = <<>>
    ELSE \/ a # <<>> /\ Head(a) = Head(c) /\ IsMerge(Tail(c), Tail(a), b)
         \/ b # <<>> /\ Head(b) = Head(c) /\ IsMerge(Tail(c), a, Tail(b))

\* The body EncodeJSONResponse gives the response to delivery d (decode
\* and endpoint hand the body on).
ResponseBody(d) == "{\"y\":" \o d.Body \o "}"

\* C14: when two invocations of the handler interleave, each works on its
\* own publication, context and error: every message an invocation
\* publishes has the correlation identifier, routing key and body that
\* come from its own delivery (or from a hook), every finalizer call gets
\* its own delivery's terminal error, and the channel sees the two
\* invocations' Publish calls interleaved, none lost or altered.
C14_InvocationsDoNotInterfere ==
    /\ \A w \in Workers :
         \A k \in DOMAIN calls[w] :
             /\ calls[w][k].op = "finalizer" => calls[w][k].err = TerminalError(w)
             /\ calls[w][k].op = "errorEncoder" =>
                  calls[w][k].err = TerminalError(w) /\ calls[w][k].deliv = deliv[w]
             /\ calls[w][k].op = "Publish" =>
                  LET c == calls[w][k]
                      by == calls[w][k - 1]
                  IN  /\ c.msg.CorrelationId \in {deliv[w].CorrelationId, "h1", "h2"}
                      /\ c.msg.CorrelationId =
                           (IF by.pub.CorrelationId = "" THEN deliv[w].CorrelationId
                            ELSE by.pub.CorrelationId)
                      /\ c.key \in {deliv[w].ReplyTo, "k1", "k2"}
                      /\ c.key = (IF by.ctx.PublishKey = "" THEN deliv[w].ReplyTo
                                  ELSE by.ctx.PublishKey)
                      /\ c.msg.Body = (IF by.op = "publishResponse"
                                       THEN ResponseBody(deliv[w])
                                       ELSE ErrorPayload(TerminalError(w)))
    /\ IsMerge(channel, Ops(1, "Publish"), Ops(2, "Publish"))

C14_Witness ==
    /\ s.errorEncoder = "ReplyAndAckErrorEncoder"
    /\ pc[1] = "finalizer"
    /\ pc[2] = "ack"
    /\ TerminalError(1) = Nil
    /\ TerminalError(2) = ErrDecode
    /\ Len(channel) = 2
    /\ channel[1].msg.Body = ErrorPayload(ErrDecode)
    /\ channel[1].msg.CorrelationId = "cid2"
    /\ channel[1].key = "q2"
    /\ channel[2].msg.Body = ResponseBody(DeliveryOf(1))
    /\ channel[2].msg.CorrelationId = "cid1"
    /\ channel[2].key = "q1"

LastEncoderCall ==
    CASE s.errorEncoder = "DefaultErrorEncoder" -> "errorEncoder"
      [] s.errorEncoder = "SingleNackRequeueErrorEncoder" -> "Sleep"
      [] s.errorEncoder = "ReplyErrorEncoder" -> "Publish"
      [] s.errorEncoder = "ReplyAndAckErrorEncoder" -> "Ack"

\* C16: in every terminal case the finalizers run in registration order
\* right after the last pipeline step (the response's Publish on success,
\* the error encoder's last call on failure), cancel runs only after all of
\* them as the very last call, and no finalizer sees a cancelled context.
C16_FinalizersThenCancel ==
    \A w \in Workers :
        LET cs == calls[w]
        IN  /\ \A k \in DOMAIN cs :
                 cs[k].op = "finalizer" =>
                   /\ ~cs[k].cancelled
                   /\ cs[k].idx \in 1..s.finalizer
                   /\ k > 1
                   /\ cs[k].idx > 1 =>
                        cs[k - 1].op = "finalizer" /\ cs[k - 1].idx = cs[k].idx - 1
                   /\ cs[k].idx = 1 =>
                        IF TerminalError(w) = Nil
                        THEN /\ cs[k - 1].op = "Publish"
                             /\ cs[k - 2].op = "publishResponse"
                             /\ cs[k - 1].err = Nil
                        ELSE cs[k - 1].op = LastEncoderCall
                   /\ \A m \in (k + 1)..Len(cs) : cs[m].op \in {"finalizer", "cancel"}
            /\ \A k \in DOMAIN cs :
                 cs[k].op = "cancel" =>
                   /\ k = Len(cs)
                   /\ Len(Ops(w, "finalizer")) = s.finalizer
                   /\ cancelled[w]
            /\ cancelled[w] <=> Ops(w, "cancel") # <<>>
            /\ pc[w] = "done" <=> cancelled[w]

C16_Witness ==
    \E w \in Workers :
        /\ pc[w] = "done"
        /\ s.finalizer = 2
        /\ s.errorEncoder = "SingleNackRequeueErrorEncoder"
        /\ TerminalError(w) = ErrInvoke
        /\ LET n == Len(calls[w])
           IN  /\ calls[w][n].op = "cancel"
               /\ calls[w][n - 1].op = "finalizer" /\ calls[w][n - 1].idx = 2
               /\ calls[w][n - 2].op = "finalizer" /\ calls[w][n - 2].idx = 1
               /\ ~calls[w][n - 1].cancelled
               /\ calls[w][n - 3].op = "Sleep"

\* C17: when the Publish of ReplyErrorEncoder fails, the failure is
\* dropped: the error encoder is not invoked again, no stage and no hook
\* runs afterwards, nothing is logged, and the finalizers get the stage
\* error that caused the encoder to run.
C17_ReplyFailureIsSwallowed ==
    \A w \in Workers :
        LET cs == calls[w]
        IN  \A k \in DOMAIN cs :
                (/\ cs[k].op = "errorEncoder"
                 /\ k < Len(cs)
                 /\ cs[k + 1].op = "Publish"
                 /\ cs[k + 1].err # Nil) =>
                    /\ Len(Ops(w, "errorEncoder")) = 1
                    /\ \A m \in (k + 1)..Len(cs) :
                         /\ cs[m].op \notin
                              (StageOps \cup {"before", "after", "errorEncoder", "Log"})
                         /\ cs[m].op = "finalizer" => cs[m].err = cs[k].err
                    /\ err[w] = cs[k].err
                    /\ cs[k].err = TerminalError(w)
                    /\ pc[w] = "done" => Len(Ops(w, "finalizer")) = s.finalizer

C17_Witness ==
    \E w \in Workers :
        /\ pc[w] = "done"
        /\ s.errorEncoder = "ReplyErrorEncoder"
        /\ s.finalizer >= 1
        /\ TerminalError(w) = ErrDecode
        /\ Len(Ops(w, "Publish")) = 1
        /\ Ops(w, "Publish")[1].err = ErrPublish
        /\ Ops(w, "finalizer")[1].err = ErrDecode

\* C18: once decode, the endpoint and encode have succeeded, Publish is
\* called exactly once for the response, with the publication as encode
\* left it: also with an empty body (EncodeNopResponse) and with an empty
\* routing key (no reply-to, no override).
C18_ResponseAlwaysPublished ==
    \A w \in Workers :
        (/\ Succeeded(w, "dec") /\ Succeeded(w, "e") /\ Succeeded(w, "enc")
         /\ pc[w] # "publishResponse") =>
            LET cs == calls[w]
                at == {k \in DOMAIN cs : cs[k].op = "publishResponse"}
            IN  /\ Cardinality(at) = 1
                /\ \A k \in at :
                     /\ k < Len(cs)
                     /\ cs[k + 1].op = "Publish"
                     /\ cs[k + 1].msg.Body = cs[k].pub.Body
                     /\ (cs[k].ctx.PublishKey = "" /\ deliv[w].ReplyTo = "") =>
                          cs[k + 1].key = ""
                     /\ s.enc = "EncodeNopResponse" => cs[k + 1].msg.Body = ""
                /\ Cardinality({k \in DOMAIN cs :
                                  /\ cs[k].op = "Publish"
                                  /\ cs[k - 1].op = "publishResponse"}) = 1

C18_Witness ==
    \E w \in Workers :
        /\ pc[w] = "done"
        /\ s.enc = "EncodeNopResponse"
        /\ deliv[w].ReplyTo = ""
        /\ TerminalError(w) = Nil
        /\ Len(Ops(w, "Publish")) = 1
        /\ Ops(w, "Publish")[1].key = ""
        /\ Ops(w, "Publish")[1].msg.Body = ""

\* C19: a delivery causes at most two Publish calls, and two only when the
\* response's Publish failed and the error encoder is a reply strategy;
\* the second then has the exchange, routing key and correlation
\* identifier of the first and the error payload as body.  Under
\* DefaultErrorEncoder and SingleNackRequeueErrorEncoder there is at most
\* one.
C19_AtMostTwoPublishes ==
    \A w \in Workers :
        LET ps == Ops(w, "Publish")
            replies == s.errorEncoder \in {"ReplyErrorEncoder", "ReplyAndAckErrorEncoder"}
        IN  /\ Len(ps) <= 2
            /\ Len(ps) = 2 =>
                 /\ replies
                 /\ TerminalError(w) = ErrPublish
                 /\ ps[1].err = ErrPublish
                 /\ ps[2].exchange = ps[1].exchange
                 /\ ps[2].key = ps[1].key
                 /\ ps[2].msg.CorrelationId = ps[1].msg.CorrelationId
                 /\ ps[2].msg.Body = ErrorPayload(ErrPublish)
            /\ (PipelineOver(w) /\ replies /\ TerminalError(w) = ErrPublish) => Len(ps) = 2
            /\ ~replies => Len(ps) <= 1

C19_Witness ==
    \E w \in Workers :
        /\ pc[w] = "done"
        /\ s.errorEncoder = "ReplyErrorEncoder"
        /\ Len(Ops(w, "Publish")) = 2
        /\ Ops(w, "Publish")[1].msg.CorrelationId = "h1"
        /\ Ops(w, "Publish")[2].msg.CorrelationId = "h1"
        /\ deliv[w].CorrelationId = "cid"
        /\ Ops(w, "Publish")[1].key = "k1"
        /\ Ops(w, "Publish")[2].key = "k1"
        /\ Ops(w, "Publish")[2].msg.Body = ErrorPayload(ErrPublish)

\* C20: ReplyAndAckErrorEncoder acknowledges the delivery exactly once,
\* with multiple=false, on every invocation, whether its reply's Publish
\* returned nil or an error.
C20_ReplyAndAckAlwaysAcks ==
    \A w \in Workers :
        (s.errorEncoder = "ReplyAndAckErrorEncoder" /\ Ops(w, "errorEncoder") # <<>>) =>
            /\ pc[w] = "ack" => Ops(w, "Ack") = <<>>
            /\ PipelineOver(w) =>
                 /\ Ops(w, "Ack") = << [op |-> "Ack", multiple |-> FALSE] >>
                 /\ LET t == InvocationCalls(w)
                    IN  t[Len(t)].op = "Ack" /\ t[1].err \in {Nil, ErrPublish}

C20_Witness ==
    \E w \in Workers :
        /\ pc[w] = "done"
        /\ s.errorEncoder = "ReplyAndAckErrorEncoder"
        /\ TerminalError(w) = ErrEncode
        /\ InvocationCalls(w)[1].op = "Publish"
        /\ InvocationCalls(w)[1].err = ErrPublish
        /\ Ops(w, "Ack") = << [op |-> "Ack", multiple |-> FALSE] >>

====
